---- MODULE Spec2Model ----
(***************************************************************************)
(* Chasing Your Tail: the sliding time-window tracking engine              *)
(* (secure_main_logic.SecureCYTMonitor), the Kismet query wrapper          *)
(* (secure_database.KismetDB, SecureTimeWindows) and the main monitoring   *)
(* script (chasing_your_tail.py).                                          *)
(*                                                                         *)
(* Time is in whole seconds, as time.mktime(timetuple()) returns it and as *)
(* Kismet stores last_time.                                                *)
(***************************************************************************)
EXTENDS Integers, Sequences, FiniteSets, TLC

(***************************************************************************)
(* Identities.  devmac values as the capture backend may store them: the   *)
(* same address in upper and in lower case, and an address without         *)
(* letters.  Probed SSIDs: '' stands for every shape of the device JSON    *)
(* that yields no probed SSID (no JSON, no dot11.device, no probe record,  *)
(* empty ssid), all of which take the same early return.                   *)
(***************************************************************************)
MAC_UPPER == "AA:BB:CC:DD:EE:FF"

MAC_LOWER == "aa:bb:cc:dd:ee:ff"

MAC_DIGITS == "11:22:33:44:55:66"

MACS == {MAC_UPPER, MAC_LOWER, MAC_DIGITS}

\* A devmac value that is not a string: sqlite3 hands back an int for a value
\* of storage class INTEGER, and the wrapper passes row['devmac'] on as it is.
\* The int 112233445566 is written as a tag to keep it apart from the strings.
MAC_INTEGER == "int(112233445566)"

\* hasattr(mac, 'upper')
has_upper(mac) == mac # MAC_INTEGER

SSIDS == {"", "CorpWiFi", "FreeWiFi"}

\* str.upper() on the MAC strings of the model
upper(mac) == IF mac = MAC_LOWER THEN MAC_UPPER ELSE mac

\* Rowid order of the devices table: the order fetchall() returns rows in.
RowidOrder == <<MAC_UPPER, MAC_LOWER, MAC_INTEGER, MAC_DIGITS>>

(***************************************************************************)
(* Configuration defaults.                                                 *)
(***************************************************************************)
time_windows == [recent |-> 5, medium |-> 10, old |-> 15, oldest |-> 20]

check_interval == 60

list_update_interval == 5

\* timedelta(minutes = m) in seconds
timedelta(minutes) == minutes * 60

\* The sink handed to write_event_log: the module-level event_log_file of
\* chasing_your_tail.py, a pathlib path (not the opened handle event_log).
event_log_file == [class |-> "PosixPath"]

(***************************************************************************)
(* Bounds of the model.                                                    *)
(***************************************************************************)
\* ticks of the main loop that are explored
MaxTicks == 6

\* sightings the capture backend records while the program runs
MaxSightings == 1

\* failed connects of the main loop
MaxConnectFailures == 1

\* ticks of the main loop explored when no new sighting arrives
DrainTicks == 21

\* ticks of the main loop explored with rows of any MAC type
BatchTicks == 2

\* sightings recorded while these ticks run
BatchSightings == 2

\* events written to an opened event file
MaxEvents == 2

\* entries of a configured ignore list
MaxIgnored == 2

\* ticks of the main loop explored when the cycles take time
CadenceTicks == 10

\* seconds the cycles take in all, beyond the sleeps
MaxCycleSeconds == 1

VARIABLES
    devices,                      \* the Kismet devices table: rows [devmac, probedssid, last_time]
    now,                          \* wall clock, seconds
    ignore_list,                  \* SecureCYTMonitor.ignore_list
    ssid_ignore_list,             \* SecureCYTMonitor.ssid_ignore_list
    past_five_mins_macs,
    five_ten_min_ago_macs,
    ten_fifteen_min_ago_macs,
    fifteen_twenty_min_ago_macs,
    past_five_mins_ssids,
    five_ten_min_ago_ssids,
    ten_fifteen_min_ago_ssids,
    fifteen_twenty_min_ago_ssids,
    current_devices,              \* the batch the last process_current_activity fetched
    emitted,                      \* events of the last process_current_activity, in order
    error_log,                    \* logger.error line of the last engine call, "" if none
    pc,                           \* position of the main script
    time_count,                   \* chasing_your_tail.time_count
    exit_status,                  \* <<status>> once sys.exit was called, <<>> before
    db_connected,                 \* KismetDB.__connection is not None
    sightings,                    \* rows the capture backend has written since Init
    rotations,                    \* rotate_tracking_lists calls that ran to their end
    refilled,                     \* <<MACs, SSIDs>> the newest buckets were refilled with
                                  \* by rotate_tracking_lists since initialization
    event_log                     \* the lines of the event sink file, each a sequence of
                                  \* JSON tokens

mac_buckets == <<past_five_mins_macs, five_ten_min_ago_macs,
                 ten_fifteen_min_ago_macs, fifteen_twenty_min_ago_macs>>

ssid_buckets == <<past_five_mins_ssids, five_ten_min_ago_ssids,
                  ten_fifteen_min_ago_ssids, fifteen_twenty_min_ago_ssids>>

buckets == <<mac_buckets, ssid_buckets>>

engine_vars == <<buckets, current_devices, emitted, error_log, rotations, refilled, event_log>>

config_vars == <<ignore_list, ssid_ignore_list>>

env_vars == <<devices, now, sightings>>

script_vars == <<pc, time_count, exit_status, db_connected>>

vars == <<engine_vars, config_vars, env_vars, script_vars>>

(***************************************************************************)
(* secure_database.py                                                      *)
(***************************************************************************)
\* SecureTimeWindows.get_time_boundaries at wall-clock time now
get_time_boundaries ==
    [recent_time  |-> now - timedelta(time_windows.recent),
     medium_time  |-> now - timedelta(time_windows.medium),
     old_time     |-> now - timedelta(time_windows.old),
     oldest_time  |-> now - timedelta(time_windows.oldest),
     current_time |-> now - timedelta(2)]

\* cursor.fetchall(): the rows of a set in rowid order
fetchall(rows) ==
    LET present == SelectSeq(RowidOrder, LAMBDA m : \E r \in rows : r.devmac = m)
    IN  [i \in 1..Len(present) |-> CHOOSE r \in rows : r.devmac = present[i]]

\* KismetDB.get_devices_by_time_range; end_time is <<>> for None, <<t>> otherwise
get_devices_by_time_range(start_time, end_time) ==
    LET rows == IF end_time # <<>>
                THEN {r \in devices : r.last_time >= start_time /\ r.last_time <= end_time[1]}
                ELSE {r \in devices : r.last_time >= start_time}
        fetched == fetchall(rows)
    IN  [i \in 1..Len(fetched) |->
            [mac |-> fetched[i].devmac,
             device_data |-> fetched[i].probedssid,
             last_time |-> fetched[i].last_time]]

\* KismetDB.get_mac_addresses_by_time_range
get_mac_addresses_by_time_range(start_time, end_time) ==
    LET found == get_devices_by_time_range(start_time, end_time)
        kept == SelectSeq(found, LAMBDA device : device.mac # "")
    IN  [i \in 1..Len(kept) |-> kept[i].mac]

\* KismetDB.get_probe_requests_by_time_range
get_probe_requests_by_time_range(start_time, end_time) ==
    LET found == get_devices_by_time_range(start_time, end_time)
        kept == SelectSeq(found, LAMBDA device : device.device_data # "")
    IN  [i \in 1..Len(kept) |->
            [mac |-> kept[i].mac, ssid |-> kept[i].device_data,
             timestamp |-> kept[i].last_time]]

(***************************************************************************)
(* events.py                                                               *)
(***************************************************************************)
\* SSIDProbeEvent(datetime.now(), ssid, mac); sighting is the number of the
\* sighting it is made for.
SSIDProbeEvent(sighting, ssid, mac) ==
    [type |-> "ssid-probe", sighting |-> sighting, ssid |-> ssid, mac |-> mac, band |-> "-",
     timestamp |-> now]

\* datetime.strftime('%m/%d/%Y %H:%M:%S') of a whole-second time: the date
\* and the time of day as text
strftime(time) == [date |-> time \div 86400, clock |-> time % 86400]

\* datetime.strptime(text, '%m/%d/%Y %H:%M:%S')
strptime(text) == text.date * 86400 + text.clock

\* encode_event: the dict it builds, as its items in insertion order
encode_event(event) ==
    <<[key |-> "type", value |-> "ssid-probe"],
      [key |-> "ssid", value |-> event.ssid],
      [key |-> "mac", value |-> event.mac],
      [key |-> "timestamp", value |-> strftime(event.timestamp)]>>

\* A token of JSON text: punctuation or one "key": value item.
Punctuation(char) == [tok |-> char, item |-> <<>>]

ItemToken(item) == [tok |-> "item", item |-> <<item>>]

\* The items of a dict with a comma after each but the last, one line each.
RECURSIVE item_lines(_, _)
item_lines(data, i) ==
    IF i > Len(data)
    THEN <<>>
    ELSE <<IF i < Len(data)
           THEN <<ItemToken(data[i]), Punctuation(",")>>
           ELSE <<ItemToken(data[i])>>>> \o item_lines(data, i + 1)

\* The lines of a sequence of lines joined into one.
RECURSIVE joined(_)
joined(lines) == IF lines = <<>> THEN <<>> ELSE Head(lines) \o joined(Tail(lines))

\* json.dump(data, fp, indent=indent) for a flat dict: the lines of text it
\* writes.  indent is <<>> for None, <<n>> for a number: with a number the
\* encoder puts a newline and n spaces after the opening brace and after
\* every comma, and a newline before the closing brace.
json_dump(data, indent) ==
    IF indent = <<>>
    THEN <<<<Punctuation("{")>> \o joined(item_lines(data, 1)) \o <<Punctuation("}")>>>>
    ELSE <<<<Punctuation("{")>>>> \o item_lines(data, 1) \o <<<<Punctuation("}")>>>>

\* json.loads(line) on one line of such text: the items of the object, or
\* JSONDecodeError when the line is not one complete object.
json_loads(line) ==
    LET n == Len(line)
        complete ==
            /\ n >= 2
            /\ line[1].tok = "{"
            /\ line[n].tok = "}"
            /\ \A i \in 2..(n - 1) :
                  IF i % 2 = 0 THEN line[i].tok = "item" ELSE line[i].tok = ","
            /\ n = 2 \/ n % 2 = 1
    IN  IF complete
        THEN [data |-> [i \in 1..((n - 1) \div 2) |-> line[2 * i].item[1]], raised |-> ""]
        ELSE [data |-> <<>>, raised |-> "JSONDecodeError"]

\* data[key] of a dict given as its items
item_value(data, key) == data[CHOOSE i \in DOMAIN data : data[i].key = key].value

\* decode_event, the object_hook of read_event_line
decode_event(data) ==
    IF ~ \E i \in DOMAIN data : data[i].key = "type"
    THEN [event |-> data, raised |-> ""]
    ELSE IF item_value(data, "type") = "ssid-probe"
    THEN [event |-> [type |-> "ssid-probe",
                     timestamp |-> strptime(item_value(data, "timestamp")),
                     ssid |-> item_value(data, "ssid"),
                     mac |-> item_value(data, "mac")],
          raised |-> ""]
    ELSE [event |-> <<>>, raised |-> "TypeError"]

\* read_event_line
read_event_line(line) ==
    LET loaded == json_loads(line)
    IN  IF loaded.raised # ""
        THEN [event |-> <<>>, raised |-> loaded.raised]
        ELSE decode_event(loaded.data)

\* An opened text file, as open() returns it.
opened_file == [class |-> "TextIOWrapper"]

\* write_event_log(file, event): the events written, the lines of text
\* appended to the file and the exception raised.  json.dump calls
\* file.write, which a path object does not have; file.write('\n') ends the
\* last line of the dump.
write_event_log(file, event) ==
    IF file.class = "PosixPath"
    THEN [written |-> <<>>, lines |-> <<>>, raised |-> "AttributeError"]
    ELSE [written |-> <<event>>, lines |-> json_dump(encode_event(event), <<0>>),
          raised |-> ""]

\* The lines write_event_log appended for the Probe Events among events.
RECURSIVE event_lines(_)
event_lines(events) ==
    IF events = <<>>
    THEN <<>>
    ELSE (IF Head(events).type = "ssid-probe"
          THEN write_event_log(event_log_file, Head(events)).lines ELSE <<>>)
         \o event_lines(Tail(events))

(***************************************************************************)
(* secure_main_logic.py: SecureCYTMonitor                                  *)
(***************************************************************************)
\* Variant: __filter_macs testing the address as spelled against the ignore set.
filter_macs_as_spelled(mac_list) ==
    {upper(mac_list[i]) : i \in {j \in DOMAIN mac_list : mac_list[j] \notin ignore_list}}

\* __filter_macs
filter_macs(mac_list) ==
    {upper(mac_list[i]) : i \in {j \in DOMAIN mac_list : upper(mac_list[j]) \notin ignore_list}}

\* Variant: __filter_ssids without the test for the empty string.
filter_ssids_keeps_empty(ssid_list) ==
    {ssid_list[i] : i \in {j \in DOMAIN ssid_list : ssid_list[j] \notin ssid_ignore_list}}

\* __filter_ssids
filter_ssids(ssid_list) ==
    {ssid_list[i] : i \in {j \in DOMAIN ssid_list :
                              ssid_list[j] # "" /\ ssid_list[j] \notin ssid_ignore_list}}

\* [p['ssid'] for p in probes]
ssids_of(probes) == [i \in DOMAIN probes |-> probes[i].ssid]

\* logger.warning("Repeated probe detected: ...") / ("Device reappeared: ...")
Warning(type, sighting, ssid, mac, band) ==
    [type |-> type, sighting |-> sighting, ssid |-> ssid, mac |-> mac, band |-> band]

\* __check_ssid_history
check_ssid_history(sighting, ssid, mac) ==
    (IF ssid \in five_ten_min_ago_ssids
     THEN <<Warning("repeated-probe", sighting, ssid, mac, "5-10")>> ELSE <<>>)
    \o (IF ssid \in ten_fifteen_min_ago_ssids
        THEN <<Warning("repeated-probe", sighting, ssid, mac, "10-15")>> ELSE <<>>)
    \o (IF ssid \in fifteen_twenty_min_ago_ssids
        THEN <<Warning("repeated-probe", sighting, ssid, mac, "15-20")>> ELSE <<>>)

\* The body of __process_probe_requests with the sink it writes to as a
\* parameter: the events it emits and the exception that leaves it, "" when
\* it returns.
process_probe_requests_to(file, sighting, device_data, mac) ==
    LET ssid == device_data
        wrote == write_event_log(file, SSIDProbeEvent(sighting, ssid, mac))
    IN  IF ssid = "" \/ ssid \in ssid_ignore_list
        THEN [events |-> <<>>, raised |-> ""]
        ELSE IF wrote.raised \in {"KeyError", "TypeError", "AttributeError"}
        THEN [events |-> wrote.written, raised |-> ""]
        ELSE IF wrote.raised # ""
        THEN [events |-> wrote.written, raised |-> wrote.raised]
        ELSE [events |-> wrote.written \o check_ssid_history(sighting, ssid, mac),
              raised |-> ""]

\* __process_probe_requests: the sink is the module-level event_log_file.
process_probe_requests(sighting, device_data, mac) ==
    process_probe_requests_to(event_log_file, sighting, device_data, mac)

\* Variant: __process_mac_tracking comparing against the newest list as well.
process_mac_tracking_newest_too(sighting, mac) ==
    IF ~ has_upper(mac)
    THEN [events |-> <<>>, raised |-> "AttributeError"]
    ELSE IF upper(mac) \in ignore_list
    THEN [events |-> <<>>, raised |-> ""]
    ELSE [events |->
            (IF mac \in past_five_mins_macs
             THEN <<Warning("device-reappeared", sighting, "", mac, "0-5")>> ELSE <<>>)
            \o (IF mac \in five_ten_min_ago_macs
                THEN <<Warning("device-reappeared", sighting, "", mac, "5-10")>> ELSE <<>>)
            \o (IF mac \in ten_fifteen_min_ago_macs
                THEN <<Warning("device-reappeared", sighting, "", mac, "10-15")>> ELSE <<>>)
            \o (IF mac \in fifteen_twenty_min_ago_macs
                THEN <<Warning("device-reappeared", sighting, "", mac, "15-20")>> ELSE <<>>),
          raised |-> ""]

\* __process_mac_tracking: the events it emits and the exception that leaves
\* it, "" when it returns.  mac.upper() raises on a MAC that is not a string.
process_mac_tracking(sighting, mac) ==
    IF ~ has_upper(mac)
    THEN [events |-> <<>>, raised |-> "AttributeError"]
    ELSE IF upper(mac) \in ignore_list
    THEN [events |-> <<>>, raised |-> ""]
    ELSE [events |->
            (IF mac \in five_ten_min_ago_macs
             THEN <<Warning("device-reappeared", sighting, "", mac, "5-10")>> ELSE <<>>)
            \o (IF mac \in ten_fifteen_min_ago_macs
                THEN <<Warning("device-reappeared", sighting, "", mac, "10-15")>> ELSE <<>>)
            \o (IF mac \in fifteen_twenty_min_ago_macs
                THEN <<Warning("device-reappeared", sighting, "", mac, "15-20")>> ELSE <<>>),
          raised |-> ""]

\* Variant: The loop body of process_current_activity leaving a device without a
\* probed SSID alone.
process_device_probes_only(sighting, device) ==
    IF device.mac = "" \/ device.device_data = ""
    THEN [events |-> <<>>, raised |-> ""]
    ELSE LET probe == process_probe_requests(sighting, device.device_data, device.mac)
         IN  IF probe.raised # ""
             THEN probe
             ELSE LET tracked == process_mac_tracking(sighting, device.mac)
                  IN  [events |-> probe.events \o tracked.events, raised |-> tracked.raised]

\* The body of the for loop of process_current_activity for one device.
process_device(sighting, device) ==
    IF device.mac = ""
    THEN [events |-> <<>>, raised |-> ""]
    ELSE LET probe == process_probe_requests(sighting, device.device_data, device.mac)
         IN  IF probe.raised # ""
             THEN probe
             ELSE LET tracked == process_mac_tracking(sighting, device.mac)
                  IN  [events |-> probe.events \o tracked.events, raised |-> tracked.raised]

\* Variant: the for loop going through the batch from its end.
RECURSIVE process_devices_last_first(_, _)
process_devices_last_first(batch, sighting) ==
    IF sighting > Len(batch)
    THEN [events |-> <<>>, raised |-> ""]
    ELSE LET rest == process_devices_last_first(batch, sighting + 1)
         IN  IF rest.raised # ""
             THEN rest
             ELSE LET one == process_device(sighting, batch[sighting])
                  IN  [events |-> rest.events \o one.events, raised |-> one.raised]

\* The for loop of process_current_activity from device number sighting on:
\* an exception that leaves a device's processing ends the loop.
RECURSIVE process_devices(_, _)
process_devices(batch, sighting) ==
    IF sighting > Len(batch)
    THEN [events |-> <<>>, raised |-> ""]
    ELSE LET one == process_device(sighting, batch[sighting])
         IN  IF one.raised # ""
             THEN one
             ELSE LET rest == process_devices(batch, sighting + 1)
                  IN  [events |-> one.events \o rest.events, raised |-> rest.raised]

\* Variant: process_current_activity recording the MACs of its batch in the
\* newest bucket.
process_current_activity_records_batch(query_fails) ==
    LET boundaries == get_time_boundaries
        batch == get_devices_by_time_range(boundaries.current_time, <<>>)
        done == process_devices(batch, 1)
    IN  /\ current_devices' = IF query_fails THEN <<>> ELSE batch
        /\ emitted' = IF query_fails THEN <<>> ELSE done.events
        /\ error_log' = IF query_fails \/ done.raised # ""
                        THEN "Error processing current activity" ELSE ""
        /\ event_log' = IF query_fails THEN event_log
                        ELSE event_log \o event_lines(done.events)
        /\ past_five_mins_macs' = IF query_fails THEN past_five_mins_macs
                                  ELSE past_five_mins_macs
                                           \cup {batch[i].mac : i \in DOMAIN batch}
        /\ UNCHANGED <<five_ten_min_ago_macs, ten_fifteen_min_ago_macs,
                       fifteen_twenty_min_ago_macs, ssid_buckets, rotations, refilled>>

\* process_current_activity; query_fails: get_devices_by_time_range raises
process_current_activity(query_fails) ==
    LET boundaries == get_time_boundaries
        batch == get_devices_by_time_range(boundaries.current_time, <<>>)
        done == process_devices(batch, 1)
    IN  /\ current_devices' = IF query_fails THEN <<>> ELSE batch
        /\ emitted' = IF query_fails THEN <<>> ELSE done.events
        /\ error_log' = IF query_fails \/ done.raised # ""
                        THEN "Error processing current activity" ELSE ""
        /\ event_log' = IF query_fails THEN event_log
                        ELSE event_log \o event_lines(done.events)
        /\ UNCHANGED <<buckets, rotations, refilled>>

\* initialize_tracking_lists; fail_at: the number (1..8, in call order) of
\* the source query that raises, 0 when none does.  The exception is logged
\* and raised again.
initialize_tracking_lists(fail_at) ==
    LET boundaries == get_time_boundaries
        ran(k) == fail_at = 0 \/ k < fail_at
    IN  /\ past_five_mins_macs' =
              IF ran(1)
              THEN filter_macs(get_mac_addresses_by_time_range(boundaries.recent_time, <<>>))
              ELSE past_five_mins_macs
        /\ five_ten_min_ago_macs' =
              IF ran(2)
              THEN filter_macs(get_mac_addresses_by_time_range(
                       boundaries.medium_time, <<boundaries.recent_time>>))
              ELSE five_ten_min_ago_macs
        /\ ten_fifteen_min_ago_macs' =
              IF ran(3)
              THEN filter_macs(get_mac_addresses_by_time_range(
                       boundaries.old_time, <<boundaries.medium_time>>))
              ELSE ten_fifteen_min_ago_macs
        /\ fifteen_twenty_min_ago_macs' =
              IF ran(4)
              THEN filter_macs(get_mac_addresses_by_time_range(
                       boundaries.oldest_time, <<boundaries.old_time>>))
              ELSE fifteen_twenty_min_ago_macs
        /\ past_five_mins_ssids' =
              IF ran(5)
              THEN filter_ssids(ssids_of(get_probe_requests_by_time_range(
                       boundaries.recent_time, <<>>)))
              ELSE past_five_mins_ssids
        /\ five_ten_min_ago_ssids' =
              IF ran(6)
              THEN filter_ssids(ssids_of(get_probe_requests_by_time_range(
                       boundaries.medium_time, <<boundaries.recent_time>>)))
              ELSE five_ten_min_ago_ssids
        /\ ten_fifteen_min_ago_ssids' =
              IF ran(7)
              THEN filter_ssids(ssids_of(get_probe_requests_by_time_range(
                       boundaries.old_time, <<boundaries.medium_time>>)))
              ELSE ten_fifteen_min_ago_ssids
        /\ fifteen_twenty_min_ago_ssids' =
              IF ran(8)
              THEN filter_ssids(ssids_of(get_probe_requests_by_time_range(
                       boundaries.oldest_time, <<boundaries.old_time>>)))
              ELSE fifteen_twenty_min_ago_ssids
        /\ error_log' = IF fail_at # 0 THEN "Failed to initialize tracking lists" ELSE ""
        /\ rotations' = 0
        /\ refilled' = <<{}, {}>>
        /\ UNCHANGED <<current_devices, emitted, event_log>>

\* Variant: rotate_tracking_lists assigning the lists newest first: every older list
\* ends up with the contents of the newest one.
rotate_tracking_lists_newest_first(failed) ==
    LET boundaries == get_time_boundaries
    IN  /\ five_ten_min_ago_macs' = past_five_mins_macs
        /\ ten_fifteen_min_ago_macs' = five_ten_min_ago_macs'
        /\ fifteen_twenty_min_ago_macs' = ten_fifteen_min_ago_macs'
        /\ five_ten_min_ago_ssids' = past_five_mins_ssids
        /\ ten_fifteen_min_ago_ssids' = five_ten_min_ago_ssids'
        /\ fifteen_twenty_min_ago_ssids' = ten_fifteen_min_ago_ssids'
        /\ past_five_mins_macs' =
              IF failed = "macs"
              THEN past_five_mins_macs
              ELSE filter_macs(get_mac_addresses_by_time_range(boundaries.recent_time, <<>>))
        /\ past_five_mins_ssids' =
              IF failed # ""
              THEN past_five_mins_ssids
              ELSE filter_ssids(ssids_of(get_probe_requests_by_time_range(
                       boundaries.recent_time, <<>>)))
        /\ error_log' = IF failed # "" THEN "Error rotating tracking lists" ELSE ""
        /\ rotations' = IF failed # "" THEN rotations ELSE rotations + 1
        /\ refilled' = <<IF failed = "macs"
                          THEN refilled[1] ELSE refilled[1] \cup past_five_mins_macs',
                         IF failed # ""
                          THEN refilled[2] ELSE refilled[2] \cup past_five_mins_ssids'>>
        /\ UNCHANGED <<current_devices, emitted, event_log>>

\* Variant: rotate_tracking_lists adding to the oldest list instead of replacing it.
rotate_tracking_lists_keeps_oldest(failed) ==
    LET boundaries == get_time_boundaries
    IN  /\ fifteen_twenty_min_ago_macs' = fifteen_twenty_min_ago_macs \cup ten_fifteen_min_ago_macs
        /\ ten_fifteen_min_ago_macs' = five_ten_min_ago_macs
        /\ five_ten_min_ago_macs' = past_five_mins_macs
        /\ fifteen_twenty_min_ago_ssids' = fifteen_twenty_min_ago_ssids \cup ten_fifteen_min_ago_ssids
        /\ ten_fifteen_min_ago_ssids' = five_ten_min_ago_ssids
        /\ five_ten_min_ago_ssids' = past_five_mins_ssids
        /\ past_five_mins_macs' =
              IF failed = "macs"
              THEN past_five_mins_macs
              ELSE filter_macs(get_mac_addresses_by_time_range(boundaries.recent_time, <<>>))
        /\ past_five_mins_ssids' =
              IF failed # ""
              THEN past_five_mins_ssids
              ELSE filter_ssids(ssids_of(get_probe_requests_by_time_range(
                       boundaries.recent_time, <<>>)))
        /\ error_log' = IF failed # "" THEN "Error rotating tracking lists" ELSE ""
        /\ rotations' = IF failed # "" THEN rotations ELSE rotations + 1
        /\ refilled' = <<IF failed = "macs"
                          THEN refilled[1] ELSE refilled[1] \cup past_five_mins_macs',
                         IF failed # ""
                          THEN refilled[2] ELSE refilled[2] \cup past_five_mins_ssids'>>
        /\ UNCHANGED <<current_devices, emitted, event_log>>

\* rotate_tracking_lists; failed: "" when both source queries succeed,
\* "macs" when get_mac_addresses_by_time_range raises, "probes" when
\* get_probe_requests_by_time_range raises.  The six older lists are
\* assigned before the first query is made.
rotate_tracking_lists(failed) ==
    LET boundaries == get_time_boundaries
    IN  /\ fifteen_twenty_min_ago_macs' = ten_fifteen_min_ago_macs
        /\ ten_fifteen_min_ago_macs' = five_ten_min_ago_macs
        /\ five_ten_min_ago_macs' = past_five_mins_macs
        /\ fifteen_twenty_min_ago_ssids' = ten_fifteen_min_ago_ssids
        /\ ten_fifteen_min_ago_ssids' = five_ten_min_ago_ssids
        /\ five_ten_min_ago_ssids' = past_five_mins_ssids
        /\ past_five_mins_macs' =
              IF failed = "macs"
              THEN past_five_mins_macs
              ELSE filter_macs(get_mac_addresses_by_time_range(boundaries.recent_time, <<>>))
        /\ past_five_mins_ssids' =
              IF failed # ""
              THEN past_five_mins_ssids
              ELSE filter_ssids(ssids_of(get_probe_requests_by_time_range(
                       boundaries.recent_time, <<>>)))
        /\ error_log' = IF failed # "" THEN "Error rotating tracking lists" ELSE ""
        /\ rotations' = IF failed # "" THEN rotations ELSE rotations + 1
        /\ refilled' = <<IF failed = "macs"
                          THEN refilled[1] ELSE refilled[1] \cup past_five_mins_macs',
                         IF failed # ""
                          THEN refilled[2] ELSE refilled[2] \cup past_five_mins_ssids'>>
        /\ UNCHANGED <<current_devices, emitted, event_log>>

(***************************************************************************)
(* The capture backend (Kismet), a separate process writing the table the  *)
(* program reads while it runs: one row per devmac, rewritten at every     *)
(* sighting.                                                               *)
(***************************************************************************)
Sight ==
    /\ pc \notin {"startup", "exited"}
    /\ sightings < MaxSightings
    /\ \E mac \in MACS, ssid \in SSIDS :
          devices' = {r \in devices : r.devmac # mac}
                     \cup {[devmac |-> mac, probedssid |-> ssid, last_time |-> now]}
    /\ sightings' = sightings + 1
    /\ UNCHANGED <<now, engine_vars, config_vars, script_vars>>

(***************************************************************************)
(* chasing_your_tail.py                                                    *)
(***************************************************************************)
\* Variant: The initialization block going on to the main loop after a failed
\* initialize_tracking_lists.
Startup_continues_after_failure ==
    /\ pc = "startup"
    /\ \E outcome \in {"no_database", "connect_failed", "validation_failed", "connected"},
          fail_at \in 0..8 :
          IF outcome = "connected"
          THEN /\ initialize_tracking_lists(fail_at)
               /\ pc' = "loop_top"
               /\ exit_status' = <<>>
          ELSE /\ fail_at = 0
               /\ pc' = "exited"
               /\ exit_status' = <<1>>
               /\ UNCHANGED engine_vars
    /\ db_connected' = FALSE
    /\ UNCHANGED <<time_count, config_vars, env_vars>>

\* The initialization block: glob, KismetDB.__enter__, validate_connection,
\* initialize_tracking_lists; every exception ends in sys.exit(1).
Startup ==
    /\ pc = "startup"
    /\ \E outcome \in {"no_database", "connect_failed", "validation_failed", "connected"},
          fail_at \in 0..8 :
          IF outcome = "connected"
          THEN /\ initialize_tracking_lists(fail_at)
               /\ pc' = IF fail_at = 0 THEN "loop_top" ELSE "exited"
               /\ exit_status' = IF fail_at = 0 THEN <<>> ELSE <<1>>
          ELSE /\ fail_at = 0
               /\ pc' = "exited"
               /\ exit_status' = <<1>>
               /\ UNCHANGED engine_vars
    /\ db_connected' = FALSE
    /\ UNCHANGED <<time_count, config_vars, env_vars>>

\* wall-clock time at which the program starts
StartTime == timedelta(time_windows.oldest) + timedelta(2)

\* The iterations that ended in the except clause so far, seen at the top of
\* the loop: every other iteration slept check_interval seconds.
ConnectFailures == time_count - (now - StartTime) \div check_interval

\* while True: time_count += 1; with KismetDB(latest_file) as db.  A failed
\* connect raises out of the with statement into the loop's except clause,
\* which continues with the next iteration.
LoopTop(limit) ==
    /\ pc = "loop_top"
    /\ time_count < limit
    /\ time_count' = time_count + 1
    /\ \E connected \in BOOLEAN :
          /\ connected \/ ConnectFailures < MaxConnectFailures
          /\ db_connected' = connected
          /\ pc' = IF connected THEN "process" ELSE "loop_top"
    /\ UNCHANGED <<exit_status, engine_vars, config_vars, env_vars>>

\* Variant: the rotation test counting the cycles from 0.
Process_counts_from_zero ==
    /\ pc = "process"
    /\ \E query_fails \in BOOLEAN : process_current_activity(query_fails)
    /\ pc' = IF (time_count - 1) % list_update_interval = 0 THEN "rotate" ELSE "close"
    /\ UNCHANGED <<time_count, exit_status, db_connected, config_vars, env_vars>>

\* secure_monitor.process_current_activity(db), then the rotation test
Process ==
    /\ pc = "process"
    /\ \E query_fails \in BOOLEAN : process_current_activity(query_fails)
    /\ pc' = IF time_count % list_update_interval = 0 THEN "rotate" ELSE "close"
    /\ UNCHANGED <<time_count, exit_status, db_connected, config_vars, env_vars>>

\* secure_monitor.rotate_tracking_lists(db)
Rotate ==
    /\ pc = "rotate"
    /\ \E failed \in {"", "macs", "probes"} : rotate_tracking_lists(failed)
    /\ pc' = "close"
    /\ UNCHANGED <<time_count, exit_status, db_connected, config_vars, env_vars>>

\* Variant: KismetDB.close leaving the connection as it is.
Close_leaves_connection ==
    /\ pc = "close"
    /\ db_connected' = db_connected
    /\ pc' = "sleep"
    /\ UNCHANGED <<time_count, exit_status, engine_vars, config_vars, env_vars>>

\* KismetDB.__exit__ at the end of the with block
Close ==
    /\ pc = "close"
    /\ db_connected' = FALSE
    /\ pc' = "sleep"
    /\ UNCHANGED <<time_count, exit_status, engine_vars, config_vars, env_vars>>

\* time.sleep(check_interval)
Sleep ==
    /\ pc = "sleep"
    /\ now' = now + check_interval
    /\ pc' = "loop_top"
    /\ UNCHANGED <<devices, sightings, time_count, exit_status, db_connected,
                   engine_vars, config_vars>>

(***************************************************************************)
(* Initial states.                                                         *)
(***************************************************************************)
\* What a table may hold for one devmac at StartTime: no row (<<>>), or a
\* row <<probedssid, age in seconds>>.
RowChoices(ssids, ages) == {<<>>} \cup {<<ssid, age>> : ssid \in ssids, age \in ages}

\* The table a choice of rows makes.
TableOf(choice) ==
    {[devmac |-> mac, probedssid |-> choice[mac][1], last_time |-> StartTime - choice[mac][2]] :
        mac \in {m \in MACS : choice[m] # <<>>}}

\* The tables that spell an address one way: not both MAC_UPPER and MAC_LOWER.
OneSpelling(table) ==
    ~ \E r1, r2 \in table : r1.devmac # r2.devmac /\ upper(r1.devmac) = upper(r2.devmac)

\* SecureCYTMonitor.__init__ and the class-level bucket defaults
Constructed(ignore, ssid_ignore) ==
    /\ ignore_list = {upper(ignore[i]) : i \in DOMAIN ignore}
    /\ ssid_ignore_list = {ssid_ignore[i] : i \in DOMAIN ssid_ignore}
    /\ past_five_mins_macs = {}
    /\ five_ten_min_ago_macs = {}
    /\ ten_fifteen_min_ago_macs = {}
    /\ fifteen_twenty_min_ago_macs = {}
    /\ past_five_mins_ssids = {}
    /\ five_ten_min_ago_ssids = {}
    /\ ten_fifteen_min_ago_ssids = {}
    /\ fifteen_twenty_min_ago_ssids = {}
    /\ current_devices = <<>>
    /\ emitted = <<>>
    /\ error_log = ""
    /\ rotations = 0
    /\ refilled = <<{}, {}>>
    /\ event_log = <<>>

InitState(choices) ==
    /\ \E lists \in {<<<<>>, <<>>>>, <<<<MAC_LOWER>>, <<"CorpWiFi">>>>} :
          Constructed(lists[1], lists[2])
    /\ \E choice \in choices : OneSpelling(TableOf(choice)) /\ devices = TableOf(choice)
    /\ now = StartTime
    /\ sightings = 0
    /\ pc = "startup"
    /\ time_count = 0
    /\ exit_status = <<>>
    /\ db_connected = FALSE

\* The main script started on a table that may hold the lettered address,
\* spelled in upper case and last seen seven minutes ago (the 5-10 minute
\* band) or in lower case and last seen twelve minutes ago (the 10-15 minute
\* band), and the other address, last seen one minute ago (current
\* activity) or seven.
StartupRows ==
    (MAC_UPPER :> {<<>>, <<"CorpWiFi", 420>>})
    @@ (MAC_LOWER :> {<<>>, <<"FreeWiFi", 720>>})
    @@ (MAC_DIGITS :> {<<>>, <<"FreeWiFi", 60>>, <<"CorpWiFi", 420>>})

StartupChoices ==
    {choice \in [MACS -> RowChoices(SSIDS, {60, 420, 720})] :
        \A mac \in MACS : choice[mac] \in StartupRows[mac]}

Init == InitState(StartupChoices)

Next ==
    \/ Startup
    \/ LoopTop(MaxTicks)
    \/ Process
    \/ Rotate
    \/ Close
    \/ Sleep
    \/ Sight

Spec == Init /\ [][Next]_vars

\* The initialization block alone, on tables with rows inside every band,
\* on the band boundaries and older than the oldest band.
InitChoices ==
    [MACS -> RowChoices(SSIDS, {0, 300, 450, 600, 900, 1200, 1260})]

InitStartup == InitState(InitChoices)

NextStartup == Startup

SpecStartup == InitStartup /\ [][NextStartup]_vars

\* The main script while the capture backend records no new sighting.
NextDrain ==
    \/ Startup
    \/ LoopTop(DrainTicks)
    \/ Process
    \/ Rotate
    \/ Close
    \/ Sleep

SpecDrain == Init /\ [][NextDrain]_vars

\* The capture backend recording a device under any devmac value, a string
\* or not.
SightAny ==
    /\ pc \notin {"startup", "exited"}
    /\ sightings < BatchSightings
    /\ \E mac \in MACS \cup {MAC_INTEGER}, ssid \in SSIDS :
          devices' = {r \in devices : r.devmac # mac}
                     \cup {[devmac |-> mac, probedssid |-> ssid, last_time |-> now]}
    /\ sightings' = sightings + 1
    /\ UNCHANGED <<now, engine_vars, config_vars, script_vars>>

\* The first ticks of the main script, before a rotation is due, on such a
\* table.
NextBatch ==
    \/ Startup
    \/ LoopTop(BatchTicks)
    \/ Process
    \/ Close
    \/ Sleep
    \/ SightAny

SpecBatch == Init /\ [][NextBatch]_vars

\* signal_handler, installed for SIGINT before the main loop: Python runs it
\* in the main thread between two bytecodes of whatever is executing, and
\* sys.exit(0) raises SystemExit there.  No "except Exception" clause catches
\* it; the with block of the cycle closes the connection on the way out.
Sigint ==
    /\ pc \notin {"startup", "exited"}
    /\ pc' = "exited"
    /\ exit_status' = <<0>>
    /\ db_connected' = FALSE
    /\ UNCHANGED <<time_count, engine_vars, config_vars, env_vars>>

\* The main script with a SIGINT arriving at any time, while the capture
\* backend records no new sighting.
NextSignal ==
    \/ Startup
    \/ LoopTop(MaxTicks)
    \/ Process
    \/ Rotate
    \/ Close
    \/ Sleep
    \/ Sigint

SpecSignal == Init /\ [][NextSignal]_vars

\* The seconds the cycles have taken so far, beyond the sleeps.
CycleSeconds == (now - StartTime) % check_interval

\* Wall-clock time passing inside a cycle, between the connect and the end of
\* the with block: the queries and the handling of the batch take time, and
\* every get_time_boundaries reads datetime.now() afresh.
Elapse ==
    /\ pc \in {"process", "rotate", "close"}
    /\ CycleSeconds < MaxCycleSeconds
    /\ now' = now + 1
    /\ UNCHANGED <<devices, sightings, engine_vars, config_vars, script_vars>>

\* The main script over two rotation periods, with cycles that take time.
NextCadence ==
    \/ Startup
    \/ LoopTop(CadenceTicks)
    \/ Process
    \/ Rotate
    \/ Close
    \/ Sleep
    \/ Sight
    \/ Elapse

SpecCadence == Init /\ [][NextCadence]_vars

\* Times of day and dates at which an event is written.
EventTimes == {StartTime, StartTime + 1, 86400 + 59, 3 * 86400 - 1}

\* write_event_log called on the opened event file at a whole-second time,
\* for any probed SSID and MAC.
InitEvents ==
    /\ Constructed(<<>>, <<>>)
    /\ devices = {}
    /\ now \in EventTimes
    /\ sightings = 0
    /\ pc = "startup"
    /\ time_count = 0
    /\ exit_status = <<>>
    /\ db_connected = FALSE

WriteEvent ==
    /\ Len(emitted) < MaxEvents
    /\ \E ssid \in SSIDS \ {""}, mac \in MACS :
          LET wrote == write_event_log(opened_file,
                                       SSIDProbeEvent(Len(emitted) + 1, ssid, mac))
          IN  /\ emitted' = emitted \o wrote.written
              /\ event_log' = event_log \o wrote.lines
    /\ UNCHANGED <<buckets, current_devices, error_log, rotations, refilled,
                   config_vars, env_vars, script_vars>>

NextEvents == WriteEvent

SpecEvents == InitEvents /\ [][NextEvents]_vars

\* The lists of at most MaxIgnored entries over a set.
ListsOver(entries) == UNION {[1..n -> entries] : n \in 0..MaxIgnored}

\* A monitor constructed with any ignore lists, the MACs in any spelling.
InitFilters ==
    /\ \E ignore \in ListsOver(MACS), ssid_ignore \in ListsOver(SSIDS) :
          Constructed(ignore, ssid_ignore)
    /\ devices = {}
    /\ now = StartTime
    /\ sightings = 0
    /\ pc = "startup"
    /\ time_count = 0
    /\ exit_status = <<>>
    /\ db_connected = FALSE

\* __filter_macs and __filter_ssids applied to the one MAC and the one SSID
\* of a sighting, the results stored as the rotation stores them.
ApplyFilters ==
    /\ current_devices = <<>>
    /\ \E mac \in MACS, ssid \in SSIDS :
          /\ current_devices' = <<[mac |-> mac, device_data |-> ssid, last_time |-> now]>>
          /\ past_five_mins_macs' = filter_macs(<<mac>>)
          /\ past_five_mins_ssids' = filter_ssids(<<ssid>>)
    /\ UNCHANGED <<five_ten_min_ago_macs, ten_fifteen_min_ago_macs,
                   fifteen_twenty_min_ago_macs, five_ten_min_ago_ssids,
                   ten_fifteen_min_ago_ssids, fifteen_twenty_min_ago_ssids,
                   emitted, error_log, rotations, refilled, event_log,
                   config_vars, env_vars, script_vars>>

NextFilters == ApplyFilters

SpecFilters == InitFilters /\ [][NextFilters]_vars

(***************************************************************************)
(* Vocabulary of the properties.                                           *)
(***************************************************************************)
\* Identities a set of table rows contributes to a MAC bucket.
MacIdsOf(rows) == {upper(r.devmac) : r \in {x \in rows : upper(x.devmac) \notin ignore_list}}

\* Identities a set of table rows contributes to an SSID bucket.
SsidIdsOf(rows) == {r.probedssid : r \in rows} \ ({""} \cup ssid_ignore_list)

\* Rows last seen from a minutes ago on.
RowsSince(a) == {r \in devices : r.last_time >= now - a * 60}

\* Rows last seen in the half-open band [now - a min, now - b min).
HalfOpenBand(a, b) == {r \in devices : r.last_time >= now - a * 60 /\ r.last_time < now - b * 60}

\* Rows last seen in the closed band [now - a min, now - b min].
ClosedBand(a, b) == {r \in devices : r.last_time >= now - a * 60 /\ r.last_time <= now - b * 60}

OlderBands == {"5-10", "10-15", "15-20"}

OlderMacBucket(band) ==
    CASE band = "5-10" -> five_ten_min_ago_macs
      [] band = "10-15" -> ten_fifteen_min_ago_macs
      [] band = "15-20" -> fifteen_twenty_min_ago_macs

AllMacBuckets == {past_five_mins_macs, five_ten_min_ago_macs,
                  ten_fifteen_min_ago_macs, fifteen_twenty_min_ago_macs}

AllSsidBuckets == {past_five_mins_ssids, five_ten_min_ago_ssids,
                   ten_fifteen_min_ago_ssids, fifteen_twenty_min_ago_ssids}

\* The positions of emitted that hold an event of a type for a sighting.
EventsOf(sighting, type) ==
    {k \in DOMAIN emitted : emitted[k].sighting = sighting /\ emitted[k].type = type}

\* process_current_activity has just gone through the batch current_devices
\* without an error; the buckets are the ones it compared against.
AfterPass ==
    /\ pc = "rotate" \/ (pc = "close" /\ time_count % list_update_interval # 0)
    /\ error_log = ""

\* A step of rotate_tracking_lists that ran to its end.
CompletedRotation == pc = "rotate" /\ rotations' = rotations + 1

\* A step of rotate_tracking_lists that logged an error.
FailedRotation == pc = "rotate" /\ pc' = "close" /\ rotations' = rotations

\* Every band moved one slot older and the newest refilled from the table.
ShiftedAndRefilled ==
    /\ fifteen_twenty_min_ago_macs' = ten_fifteen_min_ago_macs
    /\ ten_fifteen_min_ago_macs' = five_ten_min_ago_macs
    /\ five_ten_min_ago_macs' = past_five_mins_macs
    /\ past_five_mins_macs' = MacIdsOf(RowsSince(5))
    /\ fifteen_twenty_min_ago_ssids' = ten_fifteen_min_ago_ssids
    /\ ten_fifteen_min_ago_ssids' = five_ten_min_ago_ssids
    /\ five_ten_min_ago_ssids' = past_five_mins_ssids
    /\ past_five_mins_ssids' = SsidIdsOf(RowsSince(5))

(***************************************************************************)
(* C1                                                                      *)
(***************************************************************************)
\* C1: a rotate_tracking_lists call that fails logs the failure and leaves
\* all eight buckets as they were before the call.
C1_FailedRotationChangesNothing ==
    [][FailedRotation =>
          /\ error_log' = "Error rotating tracking lists"
          /\ buckets' = buckets]_vars

(***************************************************************************)
(* C2                                                                      *)
(***************************************************************************)
\* C2: after a rotation that succeeds, for MACs and for SSIDs alike, the
\* 15-20 bucket holds what the 10-15 bucket held, the 10-15 bucket what the
\* 5-10 bucket held, the 5-10 bucket what the newest bucket held, and the
\* newest bucket holds the ignore-filtered identities of the table rows last
\* seen from five minutes before the rotation on.
C2_RotationShiftsAndRefills ==
    [][CompletedRotation => ShiftedAndRefilled]_vars

\* A rotation has completed that moved distinct, non-empty contents.
C2_Witness ==
    /\ pc = "close"
    /\ rotations = 1
    /\ past_five_mins_macs # {}
    /\ five_ten_min_ago_macs # {}
    /\ fifteen_twenty_min_ago_macs # {}
    /\ past_five_mins_macs # five_ten_min_ago_macs
    /\ five_ten_min_ago_macs # fifteen_twenty_min_ago_macs
    /\ past_five_mins_ssids # {}
    /\ five_ten_min_ago_ssids # {}

(***************************************************************************)
(* C3                                                                      *)
(***************************************************************************)
\* C3: for every sighting of the current batch whose MAC is not ignored and
\* for each of the three older MAC bands, exactly one "device reappeared"
\* event tagged with the band is produced if the reported MAC is in the
\* band's bucket and none if it is not; no "device reappeared" event carries
\* another tag, so being in the newest bucket produces none.
C3_OneReappearedEventPerOlderBand ==
    AfterPass =>
        \A i \in DOMAIN current_devices :
            LET mac == current_devices[i].mac
                reappeared == EventsOf(i, "device-reappeared")
            IN  upper(mac) \notin ignore_list =>
                    /\ \A band \in OlderBands :
                          Cardinality({k \in reappeared :
                                          emitted[k].band = band /\ emitted[k].mac = mac})
                              = IF mac \in OlderMacBucket(band) THEN 1 ELSE 0
                    /\ \A k \in reappeared :
                          emitted[k].band \in OlderBands /\ emitted[k].mac = mac

\* A sighting whose MAC is in the newest and in the 5-10 bucket and not in
\* the 10-15 bucket got its one event, tagged 5-10.
C3_Witness ==
    /\ AfterPass
    /\ \E i \in DOMAIN current_devices :
          LET mac == current_devices[i].mac
          IN  /\ upper(mac) \notin ignore_list
              /\ mac \in past_five_mins_macs
              /\ mac \in five_ten_min_ago_macs
              /\ mac \notin ten_fifteen_min_ago_macs
              /\ \E k \in DOMAIN emitted :
                    emitted[k] = Warning("device-reappeared", i, "", mac, "5-10")

(***************************************************************************)
(* C4                                                                      *)
(***************************************************************************)
\* C4: in every reachable state no MAC bucket holds a MAC whose upper-case
\* form is in the ignore set, no SSID bucket holds an ignored SSID, no
\* "device reappeared" event was produced for an ignored MAC and no probe
\* event or "repeated probe" event for an ignored SSID.
C4_IgnoredIdentitiesStayOut ==
    /\ \A bucket \in AllMacBuckets : \A mac \in bucket : upper(mac) \notin ignore_list
    /\ \A bucket \in AllSsidBuckets : bucket \cap ssid_ignore_list = {}
    /\ \A k \in DOMAIN emitted :
          /\ emitted[k].type = "device-reappeared" => upper(emitted[k].mac) \notin ignore_list
          /\ emitted[k].type \in {"ssid-probe", "repeated-probe"}
                => emitted[k].ssid \notin ssid_ignore_list

\* An ignored MAC probing an ignored SSID was in the table at initialization
\* or rotation time and is sighted in the current batch, next to a bucket
\* that is not empty.
C4_Witness ==
    /\ AfterPass
    /\ rotations = 1
    /\ \E bucket \in AllMacBuckets : bucket # {}
    /\ \E i \in DOMAIN current_devices :
          /\ upper(current_devices[i].mac) \in ignore_list
          /\ current_devices[i].device_data \in ssid_ignore_list

(***************************************************************************)
(* C5                                                                      *)
(***************************************************************************)
\* C5: for every sighting of the current batch that carries a non-empty,
\* non-ignored probed SSID, exactly one Probe Event with the sighting's SSID
\* and MAC is written to the event sink.
C5_OneProbeEventPerProbe ==
    AfterPass =>
        \A i \in DOMAIN current_devices :
            LET ssid == current_devices[i].device_data
            IN  (ssid # "" /\ ssid \notin ssid_ignore_list) =>
                    Cardinality({k \in EventsOf(i, "ssid-probe") :
                                    /\ emitted[k].ssid = ssid
                                    /\ emitted[k].mac = current_devices[i].mac}) = 1

(***************************************************************************)
(* C6                                                                      *)
(***************************************************************************)
\* C6 as stated: a sighting of the current batch that carries no probed SSID
\* produces no event of any kind, whatever the buckets hold.
C6_NoEventWithoutProbe ==
    AfterPass =>
        \A i \in DOMAIN current_devices :
            current_devices[i].device_data = "" =>
                ~ \E k \in DOMAIN emitted : emitted[k].sighting = i

\* C6, amended: a sighting of the current batch that carries no probed SSID
\* produces no Probe Event and no "repeated probe" event; its MAC is still
\* checked, so that it produces one "device reappeared" event for each older
\* MAC band holding its MAC, unless the MAC is ignored, and nothing else.
C6_NoProbeEventWithoutProbe ==
    AfterPass =>
        \A i \in DOMAIN current_devices :
            current_devices[i].device_data = "" =>
                LET mac == current_devices[i].mac
                    expected == IF upper(mac) \in ignore_list
                                THEN {}
                                ELSE {band \in OlderBands : mac \in OlderMacBucket(band)}
                IN  /\ EventsOf(i, "ssid-probe") = {}
                    /\ EventsOf(i, "repeated-probe") = {}
                    /\ {emitted[k].band : k \in EventsOf(i, "device-reappeared")} = expected
                    /\ Cardinality(EventsOf(i, "device-reappeared")) = Cardinality(expected)

\* A sighting without a probed SSID got a "device reappeared" event.
C6_Witness ==
    /\ AfterPass
    /\ \E i \in DOMAIN current_devices :
          /\ current_devices[i].device_data = ""
          /\ EventsOf(i, "device-reappeared") # {}

(***************************************************************************)
(* C7                                                                      *)
(***************************************************************************)
\* C7: after initialize_tracking_lists, with now the time of the call, the
\* buckets hold the ignore-filtered identities of the rows last seen in the
\* half-open bands [now-5min, +inf), [now-10min, now-5min),
\* [now-15min, now-10min) and [now-20min, now-15min), so that a row on a
\* band boundary is in one bucket of its kind only.
C7_InitializationUsesHalfOpenBands ==
    (pc = "loop_top" /\ time_count = 0 /\ sightings = 0) =>
        /\ past_five_mins_macs = MacIdsOf(RowsSince(5))
        /\ five_ten_min_ago_macs = MacIdsOf(HalfOpenBand(10, 5))
        /\ ten_fifteen_min_ago_macs = MacIdsOf(HalfOpenBand(15, 10))
        /\ fifteen_twenty_min_ago_macs = MacIdsOf(HalfOpenBand(20, 15))
        /\ past_five_mins_ssids = SsidIdsOf(RowsSince(5))
        /\ five_ten_min_ago_ssids = SsidIdsOf(HalfOpenBand(10, 5))
        /\ ten_fifteen_min_ago_ssids = SsidIdsOf(HalfOpenBand(15, 10))
        /\ fifteen_twenty_min_ago_ssids = SsidIdsOf(HalfOpenBand(20, 15))

(***************************************************************************)
(* C8                                                                      *)
(***************************************************************************)
\* Every bucket holds the filtered result of its initialization query.
AllBandsPopulated ==
    /\ past_five_mins_macs = MacIdsOf(RowsSince(5))
    /\ five_ten_min_ago_macs = MacIdsOf(ClosedBand(10, 5))
    /\ ten_fifteen_min_ago_macs = MacIdsOf(ClosedBand(15, 10))
    /\ fifteen_twenty_min_ago_macs = MacIdsOf(ClosedBand(20, 15))
    /\ past_five_mins_ssids = SsidIdsOf(RowsSince(5))
    /\ five_ten_min_ago_ssids = SsidIdsOf(ClosedBand(10, 5))
    /\ ten_fifteen_min_ago_ssids = SsidIdsOf(ClosedBand(15, 10))
    /\ fifteen_twenty_min_ago_ssids = SsidIdsOf(ClosedBand(20, 15))

\* C8: once the initialization block is over, either the process has
\* exited with status 1 or the main loop is entered with all eight buckets
\* populated by an initialize_tracking_lists that ran to its end; a failure
\* of a source query during initialization is logged and ends in the exit.
C8_InitializationFailureIsFatal ==
    /\ pc # "startup" =>
          \/ pc = "exited" /\ exit_status = <<1>>
          \/ pc = "loop_top" /\ exit_status = <<>> /\ error_log = "" /\ AllBandsPopulated
    /\ error_log = "Failed to initialize tracking lists" =>
          pc = "exited" /\ exit_status = <<1>>

\* A source query failed after some buckets had been populated, and the
\* process exited.
C8_Witness ==
    /\ error_log = "Failed to initialize tracking lists"
    /\ pc = "exited"
    /\ past_five_mins_macs # {}
    /\ five_ten_min_ago_macs # {}
    /\ fifteen_twenty_min_ago_ssids = {}
    /\ SsidIdsOf(ClosedBand(20, 15)) # {}

(***************************************************************************)
(* C9                                                                      *)
(***************************************************************************)
\* C9: once initialized, the buckets change only by a whole rotation: every
\* step of the loop that changes a bucket shifts all the bands and refills
\* the newest ones, so that no detection pass reads a partly rotated set.
C9_BucketsChangeByWholeRotations ==
    [][(pc # "startup" /\ buckets' # buckets) => ShiftedAndRefilled]_vars

(***************************************************************************)
(* C10                                                                     *)
(***************************************************************************)
\* The identities the buckets held when initialization was over; the table
\* has not changed since.
OriginalMacs == MacIdsOf({r \in devices : r.last_time >= StartTime - 20 * 60})

OriginalSsids == SsidIdsOf({r \in devices : r.last_time >= StartTime - 20 * 60})

PassOver ==
    pc = "rotate" \/ (pc = "close" /\ time_count % list_update_interval # 0)

\* C11: when handling one sighting of the batch raises, the other sightings
\* of the batch are still processed: every sighting with a well-formed,
\* non-ignored MAC gets its one "device reappeared" event for each older MAC
\* band that holds its MAC, whatever else the batch holds.
C11_FaultySightingDoesNotEndTheBatch ==
    PassOver =>
        \A i \in DOMAIN current_devices :
            LET mac == current_devices[i].mac
            IN  (has_upper(mac) /\ upper(mac) \notin ignore_list) =>
                    \A band \in OlderBands :
                        Cardinality({k \in EventsOf(i, "device-reappeared") :
                                        emitted[k].band = band})
                            = IF mac \in OlderMacBucket(band) THEN 1 ELSE 0

(***************************************************************************)
(* C12                                                                     *)
(***************************************************************************)
\* C12: a cycle of the main loop in which the source cannot be reached or
\* queried is skipped as a whole and the loop goes on at the next scheduled
\* tick: a cycle whose connect fails goes to the check_interval sleep with
\* the buckets unchanged, and a cycle whose current-activity query failed
\* does not change the buckets either, also when a rotation is due.
C12_FailedCycleIsSkippedUntilNextTick ==
    [][/\ (pc = "loop_top" /\ time_count' = time_count + 1 /\ ~ db_connected')
              => (pc' = "sleep" /\ buckets' = buckets)
       /\ (pc = "rotate" /\ error_log = "Error processing current activity")
              => buckets' = buckets]_vars

(***************************************************************************)
(* C13                                                                     *)
(***************************************************************************)
\* C13: a SIGINT takes effect only between cycles: the process exits with
\* status 0 only from the top of the loop or from the sleep, when the
\* detection pass and any due rotation of the cycle have completed.
C13_ShutdownOnlyBetweenCycles ==
    [][(exit_status = <<>> /\ exit_status' = <<0>>) => pc \in {"loop_top", "sleep"}]_vars

(***************************************************************************)
(* C14                                                                     *)
(***************************************************************************)
\* C14: the connection of a cycle is closed by the end of the cycle on every
\* path out of it (normal end, a failed query in detection or rotation, a
\* failed connect, shutdown): a connection is open only inside a cycle, so
\* none is open at the top of the loop, where the next one is opened, during
\* the sleep or after the exit.
C14_ConnectionOpenOnlyInsideCycle ==
    db_connected => pc \in {"process", "rotate", "close"}

\* The loop sleeps, no connection open, after a cycle that fetched no batch
\* and whose rotation failed.
C14_Witness ==
    /\ pc = "sleep"
    /\ ~ db_connected
    /\ error_log = "Error rotating tracking lists"
    /\ time_count = list_update_interval
    /\ current_devices = <<>>

(***************************************************************************)
(* C15                                                                     *)
(***************************************************************************)
\* C15: write_event_log adds exactly one line for each event, and every
\* line of the event sink is a complete JSON object by itself from which
\* read_event_line returns an event with the type, timestamp, ssid and mac
\* of the event written.
C15_OneParsableLinePerEvent ==
    /\ Len(event_log) = Len(emitted)
    /\ \A i \in DOMAIN event_log :
          LET read == read_event_line(event_log[i])
          IN  /\ read.raised = ""
              /\ read.event.type = emitted[i].type
              /\ read.event.timestamp = emitted[i].timestamp
              /\ read.event.ssid = emitted[i].ssid
              /\ read.event.mac = emitted[i].mac

(***************************************************************************)
(* C16                                                                     *)
(***************************************************************************)
\* C16: for every identity x and ignore set S, the MAC filter applied to
\* {x} returns the empty set if and only if upper(x) is in S, and the SSID
\* filter applied to {x} returns the empty set if and only if x is the empty
\* string or x is in S as spelled.
C16_FilterEmptyIffIgnored ==
    \A i \in DOMAIN current_devices :
        /\ past_five_mins_macs = {} <=> upper(current_devices[i].mac) \in ignore_list
        /\ past_five_mins_ssids = {}
              <=> (current_devices[i].device_data = ""
                   \/ current_devices[i].device_data \in ssid_ignore_list)

\* The filters were applied to a MAC given in lower case whose upper-case
\* form is ignored and to an SSID that is not ignored while another one is.
C16_Witness ==
    /\ current_devices # <<>>
    /\ current_devices[1].mac = MAC_LOWER
    /\ past_five_mins_macs = {}
    /\ ssid_ignore_list = {"CorpWiFi"}
    /\ past_five_mins_ssids = {"FreeWiFi"}

(***************************************************************************)
(* C17                                                                     *)
(***************************************************************************)
\* C17: the MAC comparison of the detection pass does not depend on letter
\* case: a sighting of the current batch whose MAC is not ignored gets the
\* "device reappeared" event of every older MAC band whose bucket holds the
\* upper-case form of its MAC, however the sighting spells the MAC.
C17_DetectionIgnoresLetterCase ==
    AfterPass =>
        \A i \in DOMAIN current_devices :
            LET mac == current_devices[i].mac
            IN  upper(mac) \notin ignore_list =>
                    \A band \in OlderBands :
                        upper(mac) \in OlderMacBucket(band) =>
                            \E k \in EventsOf(i, "device-reappeared") : emitted[k].band = band

(***************************************************************************)
(* C18                                                                     *)
(***************************************************************************)
OlderSsidBucket(band) ==
    CASE band = "5-10" -> five_ten_min_ago_ssids
      [] band = "10-15" -> ten_fifteen_min_ago_ssids
      [] band = "15-20" -> fifteen_twenty_min_ago_ssids

\* C18: for every probe of the current batch whose SSID is not empty and
\* not ignored, one "repeated probe" event is produced for each of the
\* three older SSID bands whose bucket holds the SSID and none for a band
\* whose bucket does not; no "repeated probe" event is tagged with the
\* newest band.
C18_OneRepeatedProbeEventPerOlderBand ==
    AfterPass =>
        \A i \in DOMAIN current_devices :
            LET ssid == current_devices[i].device_data
                repeated == EventsOf(i, "repeated-probe")
            IN  (ssid # "" /\ ssid \notin ssid_ignore_list) =>
                    /\ \A band \in OlderBands :
                          Cardinality({k \in repeated :
                                          emitted[k].band = band /\ emitted[k].ssid = ssid})
                              = IF ssid \in OlderSsidBucket(band) THEN 1 ELSE 0
                    /\ \A k \in repeated : emitted[k].band \in OlderBands

(***************************************************************************)
(* C19                                                                     *)
(***************************************************************************)
\* The cycle number time_count begins.
TickBegins == time_count' = time_count + 1

\* C19 as stated: every tick runs the current-activity pass, and rotation
\* runs exactly on the ticks whose count is a multiple of
\* list_update_interval, after the pass of the tick.
C19_PassOnEveryTick ==
    [][/\ TickBegins => pc' = "process"
       /\ (pc = "process" /\ pc' # pc)
              => pc' = IF time_count % list_update_interval = 0 THEN "rotate" ELSE "close"]_vars

\* C19, amended: every loop iteration counts as one tick, a failed one
\* included; every tick whose connect succeeds runs the current-activity
\* pass; rotation is attempted on exactly those of these ticks whose count
\* is a multiple of list_update_interval, after the pass of the tick, and
\* the buckets change at no other point of the loop.
C19_PassAndRotationOnConnectedTicks ==
    [][/\ (pc = "loop_top" /\ pc' # "exited" /\ <<pc, time_count>>' # <<pc, time_count>>)
              => TickBegins
       /\ (TickBegins /\ db_connected') => pc' = "process"
       /\ (TickBegins /\ ~ db_connected') => (pc' = "loop_top" /\ buckets' = buckets)
       /\ (pc = "process" /\ pc' # pc)
              => /\ pc' = IF time_count % list_update_interval = 0 THEN "rotate" ELSE "close"
                 /\ buckets' = buckets
       /\ (pc = "rotate" /\ pc' # pc)
              => (time_count % list_update_interval = 0 /\ pc' = "close")
       /\ (pc \notin {"startup", "rotate"}) => buckets' = buckets]_vars

\* A rotation is due on tick 2 * list_update_interval, after the pass of the
\* tick, although the connect of an earlier tick failed.
C19_Witness ==
    /\ pc = "rotate"
    /\ time_count = 2 * list_update_interval
    /\ ConnectFailures = 2
    /\ rotations = 0

(***************************************************************************)
(* C20                                                                     *)
(***************************************************************************)
\* The place of an event type in the order of one sighting's events.
EventRank(type) ==
    CASE type = "ssid-probe" -> 1
      [] type = "repeated-probe" -> 2
      [] type = "device-reappeared" -> 3

\* The events __process_probe_requests produces for sighting i of the batch
\* when the write to its sink succeeds.
ProbeEventsIfWritten(i) ==
    process_probe_requests_to(opened_file, i, current_devices[i].device_data,
                              current_devices[i].mac).events

C21_PassLeavesBucketsAlone ==
    [][/\ pc = "process" => buckets' = buckets
       /\ buckets' # buckets => pc \in {"startup", "rotate"}
       /\ ignore_list' = ignore_list
       /\ ssid_ignore_list' = ssid_ignore_list]_vars

\* A pass has ended at a faulty sighting after it emitted an event for an
\* earlier one, with older buckets that hold something.
C21_Witness ==
    /\ PassOver
    /\ error_log = "Error processing current activity"
    /\ emitted # <<>>
    /\ five_ten_min_ago_macs # {}
    /\ ten_fifteen_min_ago_ssids # {}

(***************************************************************************)
(* C22                                                                     *)
(***************************************************************************)
\* Rows the capture backend wrote after the program started.
SightedSinceStart == {r \in devices : r.last_time >= StartTime}

\* C22: no sighting is lost at the window boundaries: when a rotation ends
\* successfully, every non-ignored identity sighted since initialization is
\* or has been in the newest bucket at the end of a successful rotation (the
\* first one that followed its sighting), however long the cycles took and
\* whichever cycles failed in between.
C22_NoSightingLost ==
    [][CompletedRotation =>
          /\ MacIdsOf(SightedSinceStart) \subseteq refilled[1]'
          /\ SsidIdsOf(SightedSinceStart) \subseteq refilled[2]']_vars

(***************************************************************************)
(* C23                                                                     *)
(***************************************************************************)
\* C23: no detection is repeated in a later poll cycle: a stored sighting
\* (a row of the table with the same last-seen time) for which one pass
\* emitted events gets no event from the pass that follows it.
C23_NoDetectionTwice ==
    [][pc = "process" =>
          \A i \in DOMAIN current_devices, j \in DOMAIN current_devices' :
              (/\ current_devices'[j] = current_devices[i]
               /\ \E k \in DOMAIN emitted : emitted[k].sighting = i)
                  => ~ \E k \in DOMAIN emitted' : emitted'[k].sighting = j]_vars

====
